---- MODULE Spec2Model ----
(***************************************************************************)
(* Matcha Budget Tracker API (src/main.py): two process-local dicts,       *)
(* expenses and locations, behind FastAPI CRUD handlers, with the pydantic *)
(* models of src/models/expense.py and src/models/location.py.             *)
(*                                                                         *)
(* Spec      one request at a time: every handler is one atomic action.    *)
(* SpecConc  the sync handlers run on the framework's thread pool, so the  *)
(*           statements of get/update/delete interleave between threads.   *)
(***************************************************************************)
EXTENDS Integers, Sequences, FiniteSets, TLC

VARIABLES expenses, locations, now, served, req, resp, threads

vars == <<expenses, locations, now, served, req, resp, threads>>

(***************************************************************************)
(* Bounds of the model.                                                    *)
(***************************************************************************)
\* datetime.utcnow() is read as a tick counter in 0..MaxClock
MaxClock == 1
\* requests dispatched in one behaviour
MaxRequests == 3

(***************************************************************************)
(* Python values.  Every value carries its type, so that == between a      *)
(* float and a str, or between None and a str, is False as in Python.      *)
(***************************************************************************)
None == [tag |-> "NoneType", num |-> 0, str |-> ""]
Str(s) == [tag |-> "str", num |-> 0, str |-> s]
\* a float, held in hundredths
Float(n) == [tag |-> "float", num |-> n, str |-> ""]
\* a datetime.date, held as the day of January 2025
Date(n) == [tag |-> "date", num |-> n, str |-> ""]
Datetime(n) == [tag |-> "datetime", num |-> n, str |-> ""]
UUID(s) == [tag |-> "UUID", num |-> 0, str |-> s]

\* str(date): date.isoformat()
isoformat(d) == Str(IF d.num = 1 THEN "2025-01-01" ELSE "2025-01-02")

(***************************************************************************)
(* A Python dict: its items in insertion order.                            *)
(***************************************************************************)
Keys(d) == {d[i].k : i \in DOMAIN d}
\* k in d
Contains(d, k) == k \in Keys(d)
IndexOf(d, k) == CHOOSE i \in DOMAIN d : d[i].k = k
\* d[k], for k in d
GetItem(d, k) == d[IndexOf(d, k)].v
\* d[k] = v: an existing key keeps its position, a new key goes last
SetItem(d, k, v) ==
  IF Contains(d, k) THEN [d EXCEPT ![IndexOf(d, k)] = [k |-> k, v |-> v]]
  ELSE Append(d, [k |-> k, v |-> v])
\* a del that drops every item from k on
DelItemTruncates(d, k) == SubSeq(d, 1, IndexOf(d, k) - 1)
\* del d[k], for k in d
DelItem(d, k) == SelectSeq(d, LAMBDA it : it.k # k)
\* list(d.values())
Values(d) == [i \in DOMAIN d |-> d[i].v]

\* a dict.update with its operands exchanged: the fields of s win
DictUpdateSwapped(s, u) ==
  [f \in (DOMAIN s) \cup (DOMAIN u) |-> IF f \in DOMAIN s THEN s[f] ELSE u[f]]
\* dict.update: the fields of u over those of s
DictUpdate(s, u) ==
  [f \in (DOMAIN s) \cup (DOMAIN u) |-> IF f \in DOMAIN u THEN u[f] ELSE s[f]]

(***************************************************************************)
(* The pydantic models.                                                    *)
(***************************************************************************)
ExpenseBaseFields == {"id", "expense_date", "order_name", "type", "location", "cost"}
ExpenseReadFields == ExpenseBaseFields \cup {"created_at", "updated_at"}
ExpenseType == {"Cafe", "Self-made"}

IsOptionalStr(x) == x.tag \in {"str", "NoneType"}

\* validation of the keyword arguments of ExpenseRead(**kw)
ExpenseReadValid(kw) ==
  /\ kw["id"].tag = "UUID"
  /\ kw["expense_date"].tag = "date"
  /\ kw["order_name"].tag = "str"
  /\ kw["type"].tag = "str" /\ kw["type"].str \in ExpenseType
  /\ IsOptionalStr(kw["location"])
  /\ kw["cost"].tag = "float"

\* ExpenseRead(**kw): created_at and updated_at come from kw when kw has
\* them; otherwise each default_factory reads the clock, created_at first
\* (t1) and updated_at second (t2)
ExpenseRead(kw, t1, t2) ==
  [f \in ExpenseReadFields |->
     IF f \in DOMAIN kw THEN kw[f]
     ELSE IF f = "created_at" THEN Datetime(t1)
     ELSE IF f = "updated_at" THEN Datetime(t2)
     ELSE None]

LocationBaseFields ==
  {"id", "name", "street", "city", "state", "postal_code", "country", "best_drink"}
LocationReadFields == LocationBaseFields \cup {"created_at", "updated_at"}

\* validation of the keyword arguments of LocationRead(**kw)
LocationReadValid(kw) ==
  /\ kw["id"].tag = "UUID"
  /\ kw["name"].tag = "str"
  /\ kw["street"].tag = "str"
  /\ kw["city"].tag = "str"
  /\ IsOptionalStr(kw["state"])
  /\ IsOptionalStr(kw["postal_code"])
  /\ kw["country"].tag = "str"
  /\ IsOptionalStr(kw["best_drink"])

LocationRead(kw, t1, t2) ==
  [f \in LocationReadFields |->
     IF f \in DOMAIN kw THEN kw[f]
     ELSE IF f = "created_at" THEN Datetime(t1)
     ELSE IF f = "updated_at" THEN Datetime(t2)
     ELSE None]

(***************************************************************************)
(* Request inputs.                                                         *)
(***************************************************************************)
Ids == {UUID("u1"), UUID("u2")}

\* ExpenseCreate bodies (without the id), as model_dump() returns them
ExpenseBodies ==
  { [expense_date |-> Date(1), order_name |-> Str("Latte"), type |-> Str("Cafe"),
     location |-> Str("Sorate"), cost |-> Float(999)],
    [expense_date |-> Date(2), order_name |-> Str("Usucha"), type |-> Str("Self-made"),
     location |-> None, cost |-> Float(40)] }

\* ExpenseUpdate bodies: model_dump(exclude_unset=True) has exactly the
\* fields the request set, a field set to null included
ExpenseUpdates ==
  { <<>>,
    [location |-> None, cost |-> Float(40)],
    [order_name |-> None] }

ExpenseFilterNames == {"expense_date", "order_name", "type", "location", "cost"}
\* the query parameters of list_expenses; a parameter not given is None
ExpenseQuery(given) ==
  [f \in ExpenseFilterNames |-> IF f \in DOMAIN given THEN Str(given[f]) ELSE None]
ExpenseQueries ==
  { ExpenseQuery(<<>>),
    ExpenseQuery([expense_date |-> "2025-01-01"]),
    ExpenseQuery([order_name |-> "Usucha"]),
    ExpenseQuery([type |-> "Cafe", location |-> "Sorate"]),
    ExpenseQuery([cost |-> "9.99"]),
    ExpenseQuery([cost |-> "0.4", type |-> "Self-made"]) }

LocationBodies ==
  { [name |-> Str("Sorate"), street |-> Str("103 Sullivan St"), city |-> Str("New York"),
     state |-> Str("NY"), postal_code |-> Str("10012"), country |-> Str("USA"),
     best_drink |-> Str("Lavender lemon matcha")] }

LocationUpdates ==
  { [city |-> Str("Boston")],
    [state |-> None, best_drink |-> Str("Usucha")],
    [name |-> None] }

LocationFilterNames ==
  {"name", "street", "city", "state", "postal_code", "country", "best_drink"}
LocationQuery(given) ==
  [f \in LocationFilterNames |-> IF f \in DOMAIN given THEN Str(given[f]) ELSE None]
LocationQueries ==
  { LocationQuery(<<>>),
    LocationQuery([name |-> "Sorate"]),
    LocationQuery([state |-> "NY", best_drink |-> "Usucha"]),
    LocationQuery([street |-> "103 Sullivan St", postal_code |-> "10012"]),
    LocationQuery([city |-> "Boston"]),
    LocationQuery([city |-> "Tokyo"]),
    LocationQuery([country |-> "USA"]) }

(***************************************************************************)
(* Requests and responses.                                                 *)
(***************************************************************************)
Request(op, id, body) == [op |-> op, id |-> id, body |-> body]
\* status 0: no request has been answered; body: the records returned
Response(status, body) == [status |-> status, body |-> body]
NoRequest == Request("none", None, <<>>)
NoResponse == Response(0, <<>>)

\* a thread of the pool that is running no handler
Idle == [pc |-> "idle", op |-> "none", id |-> None, body |-> <<>>,
         local |-> <<>>, status |-> 0, error |-> "none"]
Threads == {"t1", "t2"}

Init ==
  /\ expenses = <<>>
  /\ locations = <<>>
  /\ now = 0
  /\ served = 0
  /\ req = NoRequest
  /\ resp = NoResponse
  /\ threads = [t \in Threads |-> Idle]

\* the routing layer dispatches request r and answers it with status and body
Answer(r, status, body) ==
  /\ served < MaxRequests
  /\ served' = served + 1
  /\ req' = r
  /\ resp' = Response(status, body)

\* time passes between two requests
Tick ==
  /\ now < MaxClock
  /\ now' = now + 1
  /\ req' = NoRequest
  /\ resp' = NoResponse
  /\ UNCHANGED <<expenses, locations, served, threads>>

(***************************************************************************)
(* Expense endpoints.                                                      *)
(***************************************************************************)
\* a create_expense without the check of the id
create_expense_overwrites(id, body, t2) ==
  LET expense == DictUpdate([id |-> id], body)
  IN /\ t2 \in now..MaxClock
     /\ expenses' = SetItem(expenses, id, ExpenseRead(expense, now, t2))
     /\ now' = t2
     /\ Answer(Request("create_expense", id, body), 201, <<GetItem(expenses', id)>>)
     /\ UNCHANGED <<locations, threads>>

\* POST /expenses.  t2 is the clock at the second default_factory call.
create_expense(id, body, t2) ==
  LET expense == DictUpdate([id |-> id], body)
      r == Request("create_expense", id, body)
  IN /\ t2 \in now..MaxClock
     /\ IF Contains(expenses, id)
        THEN /\ Answer(r, 400, <<>>)
             /\ UNCHANGED <<expenses, now>>
        ELSE /\ expenses' = SetItem(expenses, id, ExpenseRead(expense, now, t2))
             /\ now' = t2
             /\ Answer(r, 201, <<GetItem(expenses', id)>>)
     /\ UNCHANGED <<locations, threads>>

\* the list comprehensions of list_expenses
ExpenseMatches(a, q) ==
  /\ q["expense_date"] # None => isoformat(a["expense_date"]) = q["expense_date"]
  /\ q["order_name"] # None => a["order_name"] = q["order_name"]
  /\ q["type"] # None => a["type"] = q["type"]
  /\ q["location"] # None => a["location"] = q["location"]
  /\ q["cost"] # None => a["cost"] = q["cost"]

\* GET /expenses
list_expenses(q) ==
  /\ Answer(Request("list_expenses", None, q), 200,
            SelectSeq(Values(expenses), LAMBDA a : ExpenseMatches(a, q)))
  /\ UNCHANGED <<expenses, locations, now, threads>>

\* GET /expenses/{expense_id}
get_expense(id) ==
  LET r == Request("get_expense", id, <<>>)
  IN /\ IF ~Contains(expenses, id)
        THEN Answer(r, 404, <<>>)
        ELSE Answer(r, 200, <<GetItem(expenses, id)>>)
     /\ UNCHANGED <<expenses, locations, now, threads>>

\* PATCH /expenses/{expense_id}.  ExpenseRead(**stored) raising a
\* ValidationError is answered 500 by the framework.
update_expense(id, update) ==
  LET r == Request("update_expense", id, update)
  IN /\ IF ~Contains(expenses, id)
        THEN /\ Answer(r, 404, <<>>)
             /\ UNCHANGED expenses
        ELSE LET stored == DictUpdate(GetItem(expenses, id), update)
             IN IF ~ExpenseReadValid(stored)
                THEN /\ Answer(r, 500, <<>>)
                     /\ UNCHANGED expenses
                ELSE /\ expenses' = SetItem(expenses, id, ExpenseRead(stored, now, now))
                     /\ Answer(r, 200, <<GetItem(expenses', id)>>)
     /\ UNCHANGED <<locations, now, threads>>

\* a delete_expense that answers 204 for an unknown id
delete_expense_idempotent(id) ==
  /\ expenses' = SelectSeq(expenses, LAMBDA it : it.k # id)
  /\ Answer(Request("delete_expense", id, <<>>), 204, <<>>)
  /\ UNCHANGED <<locations, now, threads>>

\* DELETE /expenses/{expense_id}
delete_expense(id) ==
  LET r == Request("delete_expense", id, <<>>)
  IN /\ IF ~Contains(expenses, id)
        THEN /\ Answer(r, 404, <<>>)
             /\ UNCHANGED expenses
        ELSE /\ expenses' = DelItem(expenses, id)
             /\ Answer(r, 204, <<>>)
     /\ UNCHANGED <<locations, now, threads>>

(***************************************************************************)
(* Location endpoints.                                                     *)
(***************************************************************************)
\* POST /locations: no check of the id
create_location(id, body, t2) ==
  LET location == DictUpdate([id |-> id], body)
      location_read == LocationRead(location, now, t2)
  IN /\ t2 \in now..MaxClock
     /\ locations' = SetItem(locations, location_read["id"], location_read)
     /\ now' = t2
     /\ Answer(Request("create_location", id, body), 201, <<location_read>>)
     /\ UNCHANGED <<expenses, threads>>

\* the flat list comprehensions of list_locations
LocationMatches(p, q) ==
  \A f \in LocationFilterNames : q[f] # None => p[f] = q[f]

\* the nested address filtering: p.locations is no attribute of a
\* LocationRead, so evaluating the condition for any p raises AttributeError
NestedRaises(results, q) ==
  (q["city"] # None \/ q["country"] # None) /\ Len(results) > 0

\* GET /locations
list_locations(q) ==
  LET r == Request("list_locations", None, q)
      results == SelectSeq(Values(locations), LAMBDA p : LocationMatches(p, q))
  IN /\ IF NestedRaises(results, q)
        THEN Answer(r, 500, <<>>)
        ELSE Answer(r, 200, results)
     /\ UNCHANGED <<expenses, locations, now, threads>>

\* GET /locations/{location_id}
get_location(id) ==
  LET r == Request("get_location", id, <<>>)
  IN /\ IF ~Contains(locations, id)
        THEN Answer(r, 404, <<>>)
        ELSE Answer(r, 200, <<GetItem(locations, id)>>)
     /\ UNCHANGED <<expenses, locations, now, threads>>

\* PATCH /locations/{location_id}
update_location(id, update) ==
  LET r == Request("update_location", id, update)
  IN /\ IF ~Contains(locations, id)
        THEN /\ Answer(r, 404, <<>>)
             /\ UNCHANGED locations
        ELSE LET stored == DictUpdate(GetItem(locations, id), update)
             IN IF ~LocationReadValid(stored)
                THEN /\ Answer(r, 500, <<>>)
                     /\ UNCHANGED locations
                ELSE /\ locations' = SetItem(locations, id, LocationRead(stored, now, now))
                     /\ Answer(r, 200, <<GetItem(locations', id)>>)
     /\ UNCHANGED <<expenses, now, threads>>

\* DELETE /locations/{location_id}
delete_location(id) ==
  LET r == Request("delete_location", id, <<>>)
  IN /\ IF ~Contains(locations, id)
        THEN /\ Answer(r, 404, <<>>)
             /\ UNCHANGED locations
        ELSE /\ locations' = DelItem(locations, id)
             /\ Answer(r, 204, <<>>)
     /\ UNCHANGED <<expenses, now, threads>>

Next ==
  \/ Tick
  \/ \E id \in Ids, body \in ExpenseBodies, t2 \in 0..MaxClock : create_expense(id, body, t2)
  \/ \E q \in ExpenseQueries : list_expenses(q)
  \/ \E id \in Ids : get_expense(id)
  \/ \E id \in Ids, update \in ExpenseUpdates : update_expense(id, update)
  \/ \E id \in Ids : delete_expense(id)
  \/ \E id \in Ids, body \in LocationBodies, t2 \in 0..MaxClock : create_location(id, body, t2)
  \/ \E q \in LocationQueries : list_locations(q)
  \/ \E id \in Ids : get_location(id)
  \/ \E id \in Ids, update \in LocationUpdates : update_location(id, update)
  \/ \E id \in Ids : delete_location(id)

Spec == Init /\ [][Next]_vars

(***************************************************************************)
(* The handlers statement by statement (SpecConc).  The endpoints are      *)
(* plain def functions, which the framework runs on a thread pool: between *)
(* two statements of one handler another thread may run.  threads[t] is    *)
(* the handler thread t runs: pc is its next statement, local the value of *)
(* its local variable, status and error its outcome once pc is "done".     *)
(***************************************************************************)
ExpenseOps == {"create_expense", "get_expense", "update_expense", "delete_expense"}
LocationOps == {"create_location", "get_location", "update_location", "delete_location"}
GetOps == {"get_expense", "get_location"}
UpdateOps == {"update_expense", "update_location"}
DeleteOps == {"delete_expense", "delete_location"}

\* the dict a handler works on
DictOf(op) == IF op \in ExpenseOps THEN expenses ELSE locations
\* assignment to that dict
AssignDict(op, d) ==
  IF op \in ExpenseOps
  THEN expenses' = d /\ UNCHANGED locations
  ELSE locations' = d /\ UNCHANGED expenses

\* the request bodies a handler accepts
BodiesOf(op) ==
  CASE op = "create_expense" -> ExpenseBodies
    [] op = "create_location" -> LocationBodies
    [] op = "update_expense" -> ExpenseUpdates
    [] op = "update_location" -> LocationUpdates
    [] OTHER -> {<<>>}

\* thread t ends its handler
Finish(t, status, error) ==
  threads' = [threads EXCEPT ![t].pc = "done", ![t].status = status, ![t].error = error]
Goto(t, pc) == threads' = [threads EXCEPT ![t].pc = pc]

\* the routing layer hands a request to a free thread of the pool
Begin(t, op, id, body) ==
  /\ threads[t].pc \in {"idle", "done"}
  /\ served < MaxRequests
  /\ served' = served + 1
  /\ threads' = [threads EXCEPT ![t] =
       [pc |-> IF op = "create_location" THEN "store" ELSE "check",
        op |-> op, id |-> id, body |-> body, local |-> <<>>,
        status |-> 0, error |-> "none"]]
  /\ UNCHANGED <<expenses, locations, now, req, resp>>

\* if id (not) in dict: raise HTTPException
CheckStmt(t) ==
  LET th == threads[t]
  IN /\ th.pc = "check"
     /\ IF th.op = "create_expense"
        THEN IF Contains(expenses, th.id) THEN Finish(t, 400, "none") ELSE Goto(t, "store")
        ELSE IF ~Contains(DictOf(th.op), th.id) THEN Finish(t, 404, "none")
        ELSE Goto(t, IF th.op \in GetOps THEN "return"
                     ELSE IF th.op \in UpdateOps THEN "read" ELSE "del")
     /\ UNCHANGED <<expenses, locations, now, served, req, resp>>

\* stored = dict[id].model_dump(): a KeyError when id is no key any more
ReadStmt(t) ==
  LET th == threads[t]
  IN /\ th.pc = "read"
     /\ IF Contains(DictOf(th.op), th.id)
        THEN threads' = [threads EXCEPT ![t].pc = "store",
                                        ![t].local = GetItem(DictOf(th.op), th.id)]
        ELSE Finish(t, 500, "KeyError")
     /\ UNCHANGED <<expenses, locations, now, served, req, resp>>

\* dict[id] = Read(**stored), after stored.update(...) in an update
StoreStmt(t, t2) ==
  LET th == threads[t]
      stored == IF th.op \in UpdateOps THEN DictUpdate(th.local, th.body)
                ELSE DictUpdate([id |-> th.id], th.body)
      valid == IF th.op \in ExpenseOps THEN ExpenseReadValid(stored)
               ELSE LocationReadValid(stored)
      read == IF th.op \in ExpenseOps THEN ExpenseRead(stored, now, t2)
              ELSE LocationRead(stored, now, t2)
  IN /\ th.pc = "store"
     /\ t2 \in now..MaxClock
     /\ th.op \in UpdateOps => t2 = now
     /\ IF ~valid
        THEN /\ Finish(t, 500, "ValidationError")
             /\ UNCHANGED <<expenses, locations, now>>
        ELSE /\ AssignDict(th.op, SetItem(DictOf(th.op), th.id, read))
             /\ now' = t2
             /\ IF th.op = "create_location" THEN Finish(t, 201, "none")
                ELSE Goto(t, "return")
     /\ UNCHANGED <<served, req, resp>>

\* return dict[id]: a KeyError when id is no key any more
ReturnStmt(t) ==
  LET th == threads[t]
  IN /\ th.pc = "return"
     /\ IF Contains(DictOf(th.op), th.id)
        THEN Finish(t, IF th.op = "create_expense" THEN 201 ELSE 200, "none")
        ELSE Finish(t, 500, "KeyError")
     /\ UNCHANGED <<expenses, locations, now, served, req, resp>>

\* del dict[id]: a KeyError when id is no key any more
DelStmt(t) ==
  LET th == threads[t]
  IN /\ th.pc = "del"
     /\ IF Contains(DictOf(th.op), th.id)
        THEN /\ AssignDict(th.op, DelItem(DictOf(th.op), th.id))
             /\ Finish(t, 204, "none")
        ELSE /\ Finish(t, 500, "KeyError")
             /\ UNCHANGED <<expenses, locations>>
     /\ UNCHANGED <<now, served, req, resp>>

NextConc ==
  \/ Tick
  \/ \E t \in Threads, op \in ExpenseOps \cup LocationOps, id \in Ids :
       \E body \in BodiesOf(op) : Begin(t, op, id, body)
  \/ \E t \in Threads : CheckStmt(t)
  \/ \E t \in Threads : ReadStmt(t)
  \/ \E t \in Threads, t2 \in 0..MaxClock : StoreStmt(t, t2)
  \/ \E t \in Threads : ReturnStmt(t)
  \/ \E t \in Threads : DelStmt(t)

SpecConc == Init /\ [][NextConc]_vars

(***************************************************************************)
(* Properties of the sequential service (Spec).                            *)
(***************************************************************************)
Records(d) == {d[i].v : i \in DOMAIN d}

\* dNew is d with the fields of payload r.body laid over the record r.id
\* and nothing else changed
MergedIn(d, dNew, r) ==
  /\ Len(dNew) = Len(d)
  /\ \A i \in DOMAIN d :
       IF d[i].k # r.id THEN dNew[i] = d[i]
       ELSE /\ dNew[i].k = d[i].k
            /\ DOMAIN dNew[i].v = DOMAIN d[i].v
            /\ dNew[i].v["id"] = d[i].k
            /\ \A f \in DOMAIN d[i].v :
                 dNew[i].v[f] = IF f \in DOMAIN r.body THEN r.body[f] ELSE d[i].v[f]

\* C1: a successful update replaces exactly the fields present in the
\* payload and leaves every other field of the record, its id and key, and
\* every other record as they were
C1_UpdateMerges ==
  [][ /\ (req'.op = "update_expense" /\ resp'.status = 200)
          => (MergedIn(expenses, expenses', req') /\ resp'.body = <<GetItem(expenses', req'.id)>>)
      /\ (req'.op = "update_location" /\ resp'.status = 200)
          => (MergedIn(locations, locations', req') /\ resp'.body = <<GetItem(locations', req'.id)>>)
    ]_vars

\* C1 witness: an update that set some fields and not others succeeded on
\* a collection that holds another record too
C1_Witness ==
  /\ req.op = "update_expense" /\ resp.status = 200
  /\ DOMAIN req.body = {"location", "cost"}
  /\ Len(expenses) = 2
  /\ resp.body[1]["cost"] = Float(40) /\ resp.body[1]["order_name"] = Str("Latte")

\* the record stored under id before and after a step, when it is in both
RefreshedIn(d, dNew, id, t) ==
  /\ GetItem(dNew, id)["updated_at"] = Datetime(t)
  /\ t > GetItem(d, id)["updated_at"].num
       => GetItem(dNew, id)["updated_at"].num > GetItem(d, id)["updated_at"].num

\* C2: every successful update sets updated_at to the time of the update,
\* later than the old updated_at when the clock has advanced since
C2_UpdateRefreshesUpdatedAt ==
  [][ /\ (req'.op = "update_expense" /\ resp'.status = 200)
          => RefreshedIn(expenses, expenses', req'.id, now')
      /\ (req'.op = "update_location" /\ resp'.status = 200)
          => RefreshedIn(locations, locations', req'.id, now')
    ]_vars

\* C3: create_expense with a stored id answers 400 and changes nothing;
\* with a fresh id it answers 201 and appends one record under that id
C3_CreateExpenseConflict ==
  [][ req'.op = "create_expense" =>
        /\ locations' = locations
        /\ IF Contains(expenses, req'.id)
           THEN resp'.status = 400 /\ expenses' = expenses
           ELSE /\ resp'.status = 201
                /\ Len(expenses') = Len(expenses) + 1
                /\ SubSeq(expenses', 1, Len(expenses)) = expenses
                /\ expenses'[Len(expenses')].k = req'.id
                /\ expenses'[Len(expenses')].v["id"] = req'.id
    ]_vars

\* C3 witness: a create proposing a stored id, with other field values
\* than the stored record has, was answered 400
C3_Witness ==
  /\ req.op = "create_expense" /\ resp.status = 400
  /\ Contains(expenses, req.id)
  /\ GetItem(expenses, req.id)["order_name"] # req.body["order_name"]

\* C4: get, update and delete of an id that is no key answer 404 and leave
\* both collections as they were
C4_UnknownIdNotFound ==
  [][ /\ (req'.op \in {"get_expense", "update_expense", "delete_expense"}
            /\ ~Contains(expenses, req'.id))
          => (resp'.status = 404 /\ expenses' = expenses /\ locations' = locations)
      /\ (req'.op \in {"get_location", "update_location", "delete_location"}
            /\ ~Contains(locations, req'.id))
          => (resp'.status = 404 /\ expenses' = expenses /\ locations' = locations)
    ]_vars

\* C4 witness: a request on an unknown id was answered 404 while its
\* collection held a record
C4_Witness ==
  \/ req.op \in {"get_expense", "update_expense", "delete_expense"}
       /\ resp.status = 404 /\ Len(expenses) = 1
  \/ req.op \in {"get_location", "update_location", "delete_location"}
       /\ resp.status = 404 /\ Len(locations) = 1

\* dNew is d without the item of key id, the rest in the same order
RemovedIn(d, dNew, id) ==
  /\ ~Contains(dNew, id)
  /\ Len(dNew) = Len(d) - 1
  /\ \A i \in DOMAIN d :
       d[i].k # id => dNew[IF i < IndexOf(d, id) THEN i ELSE i - 1] = d[i]

\* an id that is no key stays no key, and get, update and delete of it
\* answer 404, in every step but a successful create of that id
StaysDeleted(d, dNew, create, ops) ==
  \A id \in Ids :
    (~Contains(d, id) /\ ~(req'.op = create /\ req'.id = id /\ resp'.status = 201))
      => /\ ~Contains(dNew, id)
         /\ (req'.op \in ops /\ req'.id = id) => resp'.status = 404

\* C5: a successful delete removes exactly the record of that id; until a
\* create of the id succeeds, get, update and delete of it answer 404, and
\* a second delete right after a successful one answers 404
C5_DeleteRemoves ==
  [][ /\ (req'.op = "delete_expense" /\ resp'.status = 204)
          => RemovedIn(expenses, expenses', req'.id)
      /\ (req'.op = "delete_location" /\ resp'.status = 204)
          => RemovedIn(locations, locations', req'.id)
      /\ StaysDeleted(expenses, expenses', "create_expense",
                      {"get_expense", "update_expense", "delete_expense"})
      /\ StaysDeleted(locations, locations', "create_location",
                      {"get_location", "update_location", "delete_location"})
      /\ (req.op \in {"delete_expense", "delete_location"} /\ resp.status = 204
            /\ req'.op = req.op /\ req'.id = req.id)
          => resp'.status = 404
    ]_vars

\* C5 witness: a delete succeeded and left the other record of the
\* collection in place
C5_Witness ==
  \/ req.op = "delete_expense" /\ resp.status = 204 /\ Len(expenses) = 1
  \/ req.op = "delete_location" /\ resp.status = 204 /\ Len(locations) = 1

\* the number a cost filter denotes, in hundredths (0 - 1: not a number)
float_of_str(s) == IF s = "9.99" THEN 999 ELSE IF s = "0.4" THEN 40 ELSE 0 - 1

\* a record matches the supplied filters, the cost filter by its value
ExpenseMatchesByValue(a, q) ==
  /\ q["expense_date"] # None => isoformat(a["expense_date"]) = q["expense_date"]
  /\ q["order_name"] # None => a["order_name"] = q["order_name"]
  /\ q["type"] # None => a["type"] = q["type"]
  /\ q["location"] # None => a["location"] = q["location"]
  /\ q["cost"] # None => a["cost"].num = float_of_str(q["cost"].str)

\* C6: list_expenses returns, in insertion order, exactly the records that
\* equal every supplied filter, a cost filter included
C6_ListExpensesFilters ==
  req.op = "list_expenses" =>
    /\ resp.status = 200
    /\ resp.body = SelectSeq(Values(expenses), LAMBDA a : ExpenseMatchesByValue(a, req.body))

\* C7: list_locations answers 200 with exactly the records that equal
\* every supplied filter, a city or country filter included
C7_ListLocationsFilters ==
  req.op = "list_locations" =>
    /\ resp.status = 200
    /\ resp.body = SelectSeq(Values(locations), LAMBDA p : LocationMatches(p, req.body))

CreatedAtKept(d, dNew) ==
  \A id \in Keys(d) \cap Keys(dNew) :
    GetItem(dNew, id)["created_at"] = GetItem(d, id)["created_at"]

\* C8: while an id stays stored its created_at never changes, whatever the
\* request, and updated_at >= created_at for every stored record
C8_CreatedAtImmutable ==
  [][ /\ CreatedAtKept(expenses, expenses')
      /\ CreatedAtKept(locations, locations')
      /\ \A r \in Records(expenses') \cup Records(locations') :
           r["updated_at"].num >= r["created_at"].num
    ]_vars

\* C9: a get right after a successful create_expense of the same id
\* returns the values supplied to create, with created_at = updated_at
C9_CreateThenGet ==
  [][ (req.op = "create_expense" /\ resp.status = 201
         /\ req'.op = "get_expense" /\ req'.id = req.id)
        => /\ resp'.status = 200
           /\ resp'.body[1]["id"] = req.id
           /\ \A f \in DOMAIN req.body : resp'.body[1][f] = req.body[f]
           /\ resp'.body[1]["created_at"] = resp'.body[1]["updated_at"]
    ]_vars

\* C10: with get, update and delete of one id interleaved with a delete of
\* it, every handler ends with success or not-found: none reaches dict[id]
\* or del dict[id] when id is no key any more
C10_NoKeyError ==
  \A t \in Threads :
    (threads[t].op \in GetOps \cup UpdateOps \cup DeleteOps /\ threads[t].pc = "done")
      => (threads[t].error # "KeyError"
          /\ (threads[t].error = "none" => threads[t].status \in {200, 204, 404}))

====
